---- MODULE Spec2Model ----
(***************************************************************************)
(* Model of the colmobil product catalog front-end:                        *)
(*   - lib/fakestore: filterProducts (pure filter) and the four API client *)
(*     functions getAllProducts, getProduct, getCategories,                *)
(*     getProductsByCategory with the FakeStoreAPIError funnel;            *)
(*   - app/products/ProductsClient.tsx: the interactive controller.        *)
(*                                                                         *)
(* Conventions.  A JavaScript string that the code inspects character by   *)
(* character (title, description, search query, category passed to the API *)
(* client) is a sequence of one-character strings.  An optional value      *)
(* (x?: T, or T | null) is a sequence of length 0 (undefined / null) or 1. *)
(***************************************************************************)
EXTENDS Integers, Sequences, FiniteSets, TLC

VARIABLES
    \* ---- filterProducts(products, filters) ----
    fProducts,      \* the products argument
    fFilters,       \* the filters argument (ProductFilters)
    fPc,            \* "ready" before the call, "done" after it
    fResult,        \* the returned array (<<>> before the call)
    \* ---- one call of an API client function ----
    apiPc,          \* "idle", "awaiting" (suspended in await fetch),
                    \* "returned" or "thrown"
    apiCall,        \* the function called and its argument
    apiRequests,    \* the HTTP requests issued, in order
    apiResponse,    \* how the awaited fetch settled (Undefined before)
    apiOutcome,     \* the completion of the call (Undefined before)
    \* ---- ProductsClient ----
    products,           \* useState(initialProducts)
    selectedCategory,   \* useState("")
    isLoadingCategory,  \* useState(false)
    error,              \* useState(null): Undefined or the message
    fetches,            \* runs of fetchCategoryProducts suspended in
                        \* await getProductsByCategory, oldest first
    retryTimers,        \* pending setTimeout callbacks of handleRetry, each
                        \* with the currentCategory it captured
    lastEvent,          \* history: the event handled last
    lastFailed,         \* history: the category of the run of
                        \* fetchCategoryProducts that failed last
    searchQuery,        \* useState(""): the active query of ProductsClient
    \* ---- SearchFilterBar ----
    sfbSearchQuery,     \* useState(''): searchQuery, the text of the input
    debouncedSearch,    \* useState('')
    debounceTimers,     \* pending setTimeout callbacks of the debounce
                        \* effect, oldest first: the text each captured and
                        \* whether its 300 ms have passed
    searchCalls,        \* history: the arguments of the onSearchChange calls
                        \* since the current burst of keystrokes began
    burstKeys,          \* history: keystrokes of the current burst (0, 1,
                        \* or 2 for two and more)
    burstBase,          \* history: debouncedSearch when the burst began
    \* ---- ProductPage (app/products/[id]/page.tsx), one request ----
    pagePc,         \* "idle", "awaiting" (suspended in await getProduct),
                    \* "notFound" (notFound() was called) or "rendered"
    pageId,         \* params.id, the route segment
    pageCalls,      \* the arguments getProduct was called with, in order
    pageOutcome,    \* the completion of getProduct (Undefined before)
    pageContent     \* the product whose markup was returned, if any

fvars == <<fProducts, fFilters, fPc, fResult>>

apivars == <<apiPc, apiCall, apiRequests, apiResponse, apiOutcome>>

pvars == <<pagePc, pageId, pageCalls, pageOutcome, pageContent>>

\* the search side of the products page
svars == <<searchQuery, sfbSearchQuery, debouncedSearch, debounceTimers,
           searchCalls, burstKeys, burstBase>>

cvars == <<products, selectedCategory, isLoadingCategory, error, fetches,
           retryTimers, lastEvent, lastFailed,
           searchQuery, sfbSearchQuery, debouncedSearch, debounceTimers,
           searchCalls, burstKeys, burstBase>>

vars == <<fProducts, fFilters, fPc, fResult,
          apiPc, apiCall, apiRequests, apiResponse, apiOutcome,
          products, selectedCategory, isLoadingCategory, error, fetches,
          retryTimers, lastEvent, lastFailed,
          searchQuery, sfbSearchQuery, debouncedSearch, debounceTimers,
          searchCalls, burstKeys, burstBase,
          pagePc, pageId, pageCalls, pageOutcome, pageContent>>

-----------------------------------------------------------------------------
(* Optional values                                                         *)

Undefined == <<>>

Defined(x) == <<x>>

IsDefined(o) == o # Undefined

ValueOf(o) == o[1]

-----------------------------------------------------------------------------
(* Strings                                                                 *)

\* "" as a character sequence
EmptyStr == <<>>

\* String.prototype.toLowerCase on one character of the model's alphabet
LowerChar(c) ==
    CASE c = "A" -> "a"
      [] c = "B" -> "b"
      [] c = "C" -> "c"
      [] OTHER -> c

\* String.prototype.toLowerCase
toLowerCase(s) == [i \in DOMAIN s |-> LowerChar(s[i])]

\* String.prototype.includes: q occurs in s as a contiguous substring
includes(s, q) ==
    \E i \in 0..(Len(s) - Len(q)) : SubSeq(s, i + 1, i + Len(q)) = q

\* white space as String.prototype.trim sees it (space and tab in the alphabet)
IsWhiteSpace(c) == c \in {" ", "\t"}

RECURSIVE trimStart(_)
trimStart(s) ==
    IF s # <<>> /\ IsWhiteSpace(Head(s)) THEN trimStart(Tail(s)) ELSE s

RECURSIVE trimEnd(_)
trimEnd(s) ==
    IF s # <<>> /\ IsWhiteSpace(s[Len(s)])
    THEN trimEnd(SubSeq(s, 1, Len(s) - 1))
    ELSE s

\* String.prototype.trim
trim(s) == trimEnd(trimStart(s))

\* JavaScript truthiness of an optional string: undefined and "" are falsy
TruthyStr(o) == IsDefined(o) /\ ValueOf(o) # EmptyStr

-----------------------------------------------------------------------------
(* Products and filter specifications (lib/types.ts)                       *)

\* longest products array the filter is applied to
MaxProducts == 2

\* The catalog entries the inputs are drawn from.  category is compared by
\* the filter with !== only, so it is an atomic string here.
ProductPool ==
    { [id |-> 1, title |-> <<"A", "b">>, description |-> <<"c">>,
       category |-> "men", price |-> 1],
      [id |-> 2, title |-> <<"c">>, description |-> <<"a", "B">>,
       category |-> "Men", price |-> 2],
      [id |-> 3, title |-> <<"c", " ">>, description |-> <<>>,
       category |-> "men", price |-> 0],
      [id |-> 4, title |-> <<"b">>, description |-> <<"b", " ", "c">>,
       category |-> "jewelery", price |-> 2],
      [id |-> 5, title |-> <<"a">>, description |-> <<"a">>,
       category |-> "jewelery", price |-> 3] }

ProductById(n) == CHOOSE p \in ProductPool : p.id = n

\* searchQuery values: none, "", plain, mixed case, white space only,
\* leading / trailing white space, inner white space
SearchQueries ==
    { <<>>, <<"a">>, <<"A", "B">>, <<"b">>, <<"C">>, <<" ">>, <<" ", " ">>,
      <<"\t">>, <<"c", " ">>, <<" ", "a">>, <<"b", " ", "c">> }

FilterCategories == {"", "men", "Men", "jewelery", "toys"}

FilterPrices == 0..3

ProductFilters ==
    [ searchQuery : {Undefined} \cup {Defined(q) : q \in SearchQueries},
      category    : {Undefined} \cup {Defined(c) : c \in FilterCategories},
      minPrice    : {Undefined} \cup {Defined(n) : n \in FilterPrices},
      maxPrice    : {Undefined} \cup {Defined(n) : n \in FilterPrices} ]

\* all sequences over S of length at most n
SeqsUpTo(S, n) == UNION { [1..k -> S] : k \in 0..n }

-----------------------------------------------------------------------------
(* filterProducts (lib/fakestore)                                          *)

\* KeepProduct with the lower price bound made exclusive (<= for <)
KeepProductExclusiveMin(product, filters) ==
    LET query == toLowerCase(ValueOf(filters.searchQuery))
        matchesSearch ==
            \/ includes(toLowerCase(product.title), query)
            \/ includes(toLowerCase(product.description), query)
    IN  IF TruthyStr(filters.searchQuery) /\ ~matchesSearch THEN FALSE
        ELSE IF /\ IsDefined(filters.category)
                /\ ValueOf(filters.category) # ""
                /\ product.category # ValueOf(filters.category) THEN FALSE
        ELSE IF /\ IsDefined(filters.minPrice)
                /\ product.price <= ValueOf(filters.minPrice) THEN FALSE
        ELSE IF /\ IsDefined(filters.maxPrice)
                /\ product.price > ValueOf(filters.maxPrice) THEN FALSE
        ELSE TRUE

\* KeepProduct with the search test applied also when no query is given
\* (an absent query matches nothing)
KeepProductNeedsQuery(product, filters) ==
    LET query == toLowerCase(ValueOf(filters.searchQuery))
        matchesSearch ==
            /\ TruthyStr(filters.searchQuery)
            /\ \/ includes(toLowerCase(product.title), query)
               \/ includes(toLowerCase(product.description), query)
    IN  IF ~matchesSearch THEN FALSE
        ELSE IF /\ IsDefined(filters.category)
                /\ ValueOf(filters.category) # ""
                /\ product.category # ValueOf(filters.category) THEN FALSE
        ELSE IF /\ IsDefined(filters.minPrice)
                /\ product.price < ValueOf(filters.minPrice) THEN FALSE
        ELSE IF /\ IsDefined(filters.maxPrice)
                /\ product.price > ValueOf(filters.maxPrice) THEN FALSE
        ELSE TRUE

\* the callback given to products.filter: TRUE when the product is kept
KeepProduct(product, filters) ==
    LET query == toLowerCase(ValueOf(filters.searchQuery))
        matchesSearch ==
            \/ includes(toLowerCase(product.title), query)
            \/ includes(toLowerCase(product.description), query)
    IN  IF TruthyStr(filters.searchQuery) /\ ~matchesSearch THEN FALSE
        ELSE IF /\ IsDefined(filters.category)
                /\ ValueOf(filters.category) # ""
                /\ product.category # ValueOf(filters.category) THEN FALSE
        ELSE IF /\ IsDefined(filters.minPrice)
                /\ product.price < ValueOf(filters.minPrice) THEN FALSE
        ELSE IF /\ IsDefined(filters.maxPrice)
                /\ product.price > ValueOf(filters.maxPrice) THEN FALSE
        ELSE TRUE

\* a filter that collects the kept elements in front of the result
\* (unshift for push), so that the output order is reversed
RECURSIVE ArrayFilterUnshift(_, _)
ArrayFilterUnshift(items, filters) ==
    IF items = <<>> THEN <<>>
    ELSE IF KeepProduct(Head(items), filters)
         THEN ArrayFilterUnshift(Tail(items), filters) \o <<Head(items)>>
         ELSE ArrayFilterUnshift(Tail(items), filters)

\* Array.prototype.filter: the kept elements, in order
RECURSIVE ArrayFilter(_, _)
ArrayFilter(items, filters) ==
    IF items = <<>> THEN <<>>
    ELSE IF KeepProduct(Head(items), filters)
         THEN <<Head(items)>> \o ArrayFilter(Tail(items), filters)
         ELSE ArrayFilter(Tail(items), filters)

filterProducts(items, filters) == ArrayFilter(items, filters)

-----------------------------------------------------------------------------
(* JavaScript numbers, template literals, errors (lib/fakestore)           *)

\* A number is NaN or the rational twice/2, which covers the integers and
\* the halves (1.5 is twice = 3).
NaN == [nan |-> TRUE, twice |-> 0]

Num(n) == [nan |-> FALSE, twice |-> 2 * n]

Halves(k) == [nan |-> FALSE, twice |-> k]

\* !x for a number: 0 and NaN are falsy
FalsyNumber(x) == x.nan \/ x.twice = 0

\* x <= 0 for a number: every comparison with NaN is false
LeqZero(x) == ~x.nan /\ x.twice <= 0

\* The pieces of a template literal.  A literal piece carries its text as
\* one string, an interpolated string its characters, an interpolated
\* number its value.
Lit(text) == [kind |-> "lit", text |-> <<text>>, twice |-> 0]

StrTok(chars) == [kind |-> "string", text |-> chars, twice |-> 0]

\* `${x}` for a number x
NumberTok(x) ==
    IF x.nan THEN [kind |-> "lit", text |-> <<"NaN">>, twice |-> 0]
    ELSE [kind |-> "number", text |-> <<>>, twice |-> x.twice]

\* new FakeStoreAPIError(message, statusCode, endpoint)
FakeStoreAPIError(message, statusCode, endpoint) ==
    [ name |-> "FakeStoreAPIError", message |-> message,
      statusCode |-> statusCode, endpoint |-> endpoint ]

\* an error of the platform (TypeError of fetch, SyntaxError of json()): it
\* has a message and neither statusCode nor endpoint
PlatformError(name, text) ==
    [ name |-> name, message |-> <<Lit(text)>>,
      statusCode |-> Undefined, endpoint |-> Undefined ]

\* completions of a call or of a try block
Throw(err) == [threw |-> TRUE, error |-> err, value |-> <<>>]

Return(value) ==
    [threw |-> FALSE, error |-> PlatformError("", ""), value |-> value]

\* encodeURIComponent on one character of the model's alphabet: letters and
\* the apostrophe stay, every other character becomes its %XX escape
EncodeChar(c) ==
    CASE c = " "  -> "%20"
      [] c = "\t" -> "%09"
      [] c = "/"  -> "%2F"
      [] OTHER    -> c

encodeURIComponent(s) == [i \in DOMAIN s |-> EncodeChar(s[i])]

-----------------------------------------------------------------------------
(* The API client (lib/fakestore)                                          *)

API_BASE_URL == "https://fakestoreapi.com"

ApiFunctions ==
    {"getAllProducts", "getProduct", "getCategories", "getProductsByCategory"}

\* ids given to getProduct: negative, zero, positive integers, 0.5, 1.5, NaN
ProductIds ==
    { Num(-5), Num(-1), Halves(-1), Num(0), Halves(1), Num(1), Halves(3),
      Num(7), NaN }

\* categories given to getProductsByCategory
CategoryArgs ==
    { <<>>, <<" ">>, <<" ", " ", " ">>, <<"\t", " ">>, <<"a">>,
      <<"a", " ", "b">>, <<" ", "a">>, <<"a", "/", "b">>, <<"a", "'", "s">> }

\* the JSON values a response body can carry: arrays of catalog entries
Payloads ==
    { <<>>, <<ProductById(1)>>, <<ProductById(4), ProductById(5)>> }

StatusCodes == {200, 201, 304, 400, 404, 500, 503}

\* The ways the awaited fetch settles: it rejects (transport failure), or
\* resolves with a response whose body is valid JSON or not.
Responses ==
    { [rejected |-> TRUE, status |-> 0, statusText |-> "", jsonOk |-> FALSE,
       body |-> <<>>] }
    \cup [ rejected : {FALSE}, status : StatusCodes,
           statusText : {"", "reason"}, jsonOk : BOOLEAN, body : Payloads ]

\* response.ok
ResponseOk(response) == response.status >= 200 /\ response.status <= 299

\* the call f(arg); the argument a function does not take has a fixed value
Call(fn, id, category) == [fn |-> fn, id |-> id, category |-> category]

NoId == Num(0)

NoCategory == <<>>

\* the endpoint string given to the errors of a call
Endpoint(call) ==
    CASE call.fn = "getAllProducts" -> <<Lit("/products")>>
      [] call.fn = "getProduct" -> <<Lit("/products/"), NumberTok(call.id)>>
      [] call.fn = "getCategories" -> <<Lit("/products/categories")>>
      [] call.fn = "getProductsByCategory" ->
            <<Lit("/products/category/"), StrTok(call.category)>>

\* the URL given to fetch
RequestUrl(call) ==
    CASE call.fn = "getAllProducts" -> <<Lit(API_BASE_URL), Lit("/products")>>
      [] call.fn = "getProduct" ->
            <<Lit(API_BASE_URL), Lit("/products/"), NumberTok(call.id)>>
      [] call.fn = "getCategories" ->
            <<Lit(API_BASE_URL), Lit("/products/categories")>>
      [] call.fn = "getProductsByCategory" ->
            <<Lit(API_BASE_URL), Lit("/products/category/"),
              StrTok(encodeURIComponent(call.category))>>

\* the guard in front of the try block without the falsy test (id <= 0 only)
ArgumentInvalidNoFalsyTest(call) ==
    CASE call.fn = "getProduct" -> LeqZero(call.id)
      [] call.fn = "getProductsByCategory" ->
            call.category = EmptyStr \/ Len(trim(call.category)) = 0
      [] OTHER -> FALSE

\* the guard in front of the try block: !id || id <= 0, and
\* !category || category.trim().length === 0
ArgumentInvalid(call) ==
    CASE call.fn = "getProduct" -> FalsyNumber(call.id) \/ LeqZero(call.id)
      [] call.fn = "getProductsByCategory" ->
            call.category = EmptyStr \/ Len(trim(call.category)) = 0
      [] OTHER -> FALSE

\* the error thrown when the guard fails
ArgumentError(call) ==
    CASE call.fn = "getProduct" ->
            FakeStoreAPIError(
                <<Lit("Invalid product ID: "), NumberTok(call.id),
                  Lit(". ID must be a positive number.")>>,
                Undefined, Defined(Endpoint(call)))
      [] call.fn = "getProductsByCategory" ->
            FakeStoreAPIError(<<Lit("Category name cannot be empty")>>,
                              Undefined, Defined(Endpoint(call)))

\* the 404 error built without the status of the response
NotFoundErrorNoStatus(call, response) ==
    CASE call.fn = "getProduct" ->
            FakeStoreAPIError(
                <<Lit("Product with ID "), NumberTok(call.id),
                  Lit(" not found")>>,
                Undefined, Defined(Endpoint(call)))
      [] call.fn = "getProductsByCategory" ->
            FakeStoreAPIError(
                <<Lit("Category \""), StrTok(call.category),
                  Lit("\" not found")>>,
                Undefined, Defined(Endpoint(call)))

\* the error of the response.status === 404 branch
NotFoundError(call, response) ==
    CASE call.fn = "getProduct" ->
            FakeStoreAPIError(
                <<Lit("Product with ID "), NumberTok(call.id),
                  Lit(" not found")>>,
                Defined(response.status), Defined(Endpoint(call)))
      [] call.fn = "getProductsByCategory" ->
            FakeStoreAPIError(
                <<Lit("Category \""), StrTok(call.category),
                  Lit("\" not found")>>,
                Defined(response.status), Defined(Endpoint(call)))

\* "Failed to fetch ...: " of the !response.ok error
FailedPrefix(call) ==
    CASE call.fn = "getAllProducts" -> <<Lit("Failed to fetch products: ")>>
      [] call.fn = "getProduct" ->
            <<Lit("Failed to fetch product "), NumberTok(call.id), Lit(": ")>>
      [] call.fn = "getCategories" ->
            <<Lit("Failed to fetch categories: ")>>
      [] call.fn = "getProductsByCategory" ->
            <<Lit("Failed to fetch products for category \""),
              StrTok(call.category), Lit("\": ")>>

\* the error of a response that is not ok:
\* `... ${response.status} ${response.statusText}`
StatusError(call, response) ==
    FakeStoreAPIError(
        FailedPrefix(call) \o
            <<NumberTok(Num(response.status)), Lit(" "),
              Lit(response.statusText)>>,
        Defined(response.status), Defined(Endpoint(call)))

\* "Network error while fetching ...: " of the catch block
NetworkPrefix(call) ==
    CASE call.fn = "getAllProducts" ->
            <<Lit("Network error while fetching products: ")>>
      [] call.fn = "getProduct" ->
            <<Lit("Network error while fetching product "),
              NumberTok(call.id), Lit(": ")>>
      [] call.fn = "getCategories" ->
            <<Lit("Network error while fetching categories: ")>>
      [] call.fn = "getProductsByCategory" ->
            <<Lit("Network error while fetching products for category \""),
              StrTok(call.category), Lit("\": ")>>

\* the try block from the point where the awaited fetch settles
TryBlock(call, response) ==
    IF response.rejected THEN Throw(PlatformError("TypeError", "fetch failed"))
    ELSE IF ~ResponseOk(response) THEN
        IF /\ call.fn \in {"getProduct", "getProductsByCategory"}
           /\ response.status = 404
        THEN Throw(NotFoundError(call, response))
        ELSE Throw(StatusError(call, response))
    ELSE IF ~response.jsonOk
        THEN Throw(PlatformError("SyntaxError", "Unexpected token"))
    ELSE Return(response.body)

\* a catch block that wraps whatever was thrown
CatchBlockAlwaysWraps(call, completion) ==
    IF ~completion.threw THEN completion
    ELSE Throw(FakeStoreAPIError(
                   NetworkPrefix(call) \o completion.error.message,
                   Undefined, Defined(Endpoint(call))))

\* a catch block that re-throws whatever was thrown
CatchBlockRethrows(call, completion) == completion

\* the catch block: a FakeStoreAPIError is re-thrown, anything else is
\* wrapped
CatchBlock(call, completion) ==
    IF ~completion.threw THEN completion
    ELSE IF completion.error.name = "FakeStoreAPIError" THEN completion
    ELSE Throw(FakeStoreAPIError(
                   NetworkPrefix(call) \o completion.error.message,
                   Undefined, Defined(Endpoint(call))))

\* the completion of a call whose fetch settled with response
Settle(call, response) == CatchBlock(call, TryBlock(call, response))

\* the request of a call, with the category put into the URL as it is
FetchRequestRaw(call) ==
    IF call.fn = "getProductsByCategory"
    THEN <<Lit(API_BASE_URL), Lit("/products/category/"),
           StrTok(call.category)>>
    ELSE RequestUrl(call)

\* fetch(url, { next: { revalidate: 3600 } }): a GET of the URL
FetchRequest(call) == RequestUrl(call)

ApiIdle ==
    /\ apiPc = "idle"
    /\ apiCall = Call("getAllProducts", NoId, NoCategory)
    /\ apiRequests = <<>>
    /\ apiResponse = Undefined
    /\ apiOutcome = Undefined

\* the call up to its first await: the guard, then the fetch
Invoke(call) ==
    /\ apiPc = "idle"
    /\ apiCall' = call
    /\ apiResponse' = Undefined
    /\ IF ArgumentInvalid(call)
       THEN /\ apiPc' = "thrown"
            /\ apiOutcome' = Defined(Throw(ArgumentError(call)))
            /\ apiRequests' = apiRequests
       ELSE /\ apiPc' = "awaiting"
            /\ apiOutcome' = Undefined
            /\ apiRequests' = Append(apiRequests, FetchRequest(call))
    /\ UNCHANGED <<fvars, cvars, pvars>>

getAllProducts == Invoke(Call("getAllProducts", NoId, NoCategory))

getProduct(id) == Invoke(Call("getProduct", id, NoCategory))

getCategories == Invoke(Call("getCategories", NoId, NoCategory))

getProductsByCategory(category) ==
    Invoke(Call("getProductsByCategory", NoId, category))

\* the awaited fetch settles and the call runs to its completion
FetchSettles(response) ==
    /\ apiPc = "awaiting"
    /\ apiResponse' = Defined(response)
    /\ LET completion == Settle(apiCall, response)
       IN  /\ apiOutcome' = Defined(completion)
           /\ apiPc' = IF completion.threw THEN "thrown" ELSE "returned"
    /\ UNCHANGED <<apiCall, apiRequests>>
    /\ UNCHANGED <<fvars, cvars, pvars>>

FilterIdle ==
    /\ fProducts = <<>>
    /\ fFilters = [searchQuery |-> Undefined, category |-> Undefined,
                   minPrice |-> Undefined, maxPrice |-> Undefined]
    /\ fPc = "ready"
    /\ fResult = <<>>

-----------------------------------------------------------------------------
(* Specification of one call of filterProducts                             *)

FilterInputs ==
    /\ fProducts \in SeqsUpTo(ProductPool, MaxProducts)
    /\ fFilters \in ProductFilters
    /\ fPc = "ready"
    /\ fResult = <<>>

CallFilterProducts ==
    /\ fPc = "ready"
    /\ fResult' = filterProducts(fProducts, fFilters)
    /\ fPc' = "done"
    /\ UNCHANGED <<fProducts, fFilters>>
    /\ UNCHANGED <<apivars, cvars, pvars>>

-----------------------------------------------------------------------------
(* ProductsClient (app/products/ProductsClient.tsx)                        *)

\* most runs of fetchCategoryProducts suspended at the same time
MaxInFlight == 2

\* most setTimeout callbacks of handleRetry pending at the same time
MaxRetryTimers == 1

\* the initialProducts prop: the list the server rendered
InitialProducts == <<ProductById(1), ProductById(2), ProductById(4)>>

\* the categories prop: the options of the category select
Categories == { <<"a">>, <<"b", " ", "c">> }

\* the value of the "All Categories" option
AllCategories == EmptyStr

\* error === null
NoError == Undefined

\* the user-facing message of the catch block, for the value caught in a
\* run started for category
ErrorMessage(err, category) ==
    IF err.name = "FakeStoreAPIError" THEN
        IF err.statusCode = Defined(404) THEN
            <<Lit("Category \""), StrTok(category),
              Lit("\" not found. Please select a different category.")>>
        ELSE IF IsDefined(err.statusCode) /\ ValueOf(err.statusCode) # 0 THEN
            <<Lit("Unable to load products at this time. Please try again later.")>>
        ELSE
            <<Lit("Network error. Please check your connection and try again.")>>
    ELSE
        <<Lit("An error occurred while loading products. Please try again.")>>

Event(kind, category, ok, value) ==
    [kind |-> kind, category |-> category, ok |-> ok, value |-> value]

\* s without its i-th element
RemoveAt(s, i) == SubSeq(s, 1, i - 1) \o SubSeq(s, i + 1, Len(s))

\* The ways a fetch of the products page settles, one of each kind that
\* fetchCategoryProducts tells apart: rejected, a list of products, 404,
\* another failure status, a body that is not JSON.
PageResponses ==
    { r \in Responses :
        \/ r.rejected
        \/ /\ r.status = 200 /\ r.statusText = "" /\ r.jsonOk
           /\ r.body # <<>>
        \/ /\ r.status \in {404, 500} /\ r.statusText = "reason" /\ ~r.jsonOk
           /\ r.body = <<>>
        \/ /\ r.status = 200 /\ r.statusText = "" /\ ~r.jsonOk
           /\ r.body = <<>> }

\* the texts typed into the search input
SearchTexts == { <<>>, <<"A">>, <<" ">> }

\* most debounce timers pending at the same time (the effect keeps one)
MaxDebounceTimers == 2

\* setTimeout(() => setDebouncedSearch(searchQuery), 300): the new timer
Timer(text) == [text |-> text, due |-> FALSE]

\* SearchFilterBar and the search state of ProductsClient after the mount:
\* the debounce effect has set its first timer, onSearchChange('') has run
SearchMounted ==
    /\ searchQuery = EmptyStr
    /\ sfbSearchQuery = EmptyStr
    /\ debouncedSearch = EmptyStr
    /\ debounceTimers = <<Timer(EmptyStr)>>
    /\ searchCalls = <<>>
    /\ burstKeys = 0
    /\ burstBase = EmptyStr

ClientInit ==
    /\ products = InitialProducts
    /\ selectedCategory = AllCategories
    /\ isLoadingCategory = FALSE
    /\ error = NoError
    /\ fetches = <<>>
    /\ retryTimers = <<>>
    /\ lastEvent = Event("mount", AllCategories, TRUE, <<>>)
    /\ lastFailed = Undefined
    /\ SearchMounted

\* an effect without the test of !selectedCategory: it fetches for "" too
CategoryEffectAlwaysFetches(category) ==
    /\ isLoadingCategory' = TRUE
    /\ error' = NoError
    /\ fetches' = Append(fetches, category)
    /\ UNCHANGED products

\* The effect on [selectedCategory, initialProducts], run after a render in
\* which selectedCategory became category: fetchCategoryProducts up to its
\* return or its await.
CategoryEffect(category) ==
    IF category = EmptyStr
    THEN /\ products' = InitialProducts
         /\ error' = NoError
         /\ UNCHANGED <<isLoadingCategory, fetches>>
    ELSE /\ isLoadingCategory' = TRUE
         /\ error' = NoError
         /\ fetches' = Append(fetches, category)
         /\ UNCHANGED products

\* handleCategoryChange(category), called by the onChange of the select with
\* an option other than the selected one, followed by the effect
handleCategoryChange(category) ==
    /\ category # selectedCategory
    /\ category # EmptyStr => Len(fetches) < MaxInFlight
    /\ selectedCategory' = category
    /\ CategoryEffect(category)
    /\ lastEvent' = Event("select", category, TRUE, <<>>)
    /\ UNCHANGED <<retryTimers, lastFailed, svars>>
    /\ UNCHANGED <<fvars, apivars, pvars>>

\* a try block that drops the result of a category no longer selected
FetchSucceededIfCurrent(category, value) ==
    /\ products' = IF category = selectedCategory THEN value ELSE products
    /\ UNCHANGED <<error, lastFailed>>

\* the try block after the await: setProducts(categoryProducts), whatever
\* category is selected by now
FetchSucceeded(category, value) ==
    /\ products' = value
    /\ UNCHANGED <<error, lastFailed>>

\* a catch block that resets the list
FetchFailedClearsList(category, err) ==
    /\ error' = Defined(ErrorMessage(err, category))
    /\ lastFailed' = Defined(category)
    /\ products' = <<>>

\* the catch block: setError(message), "Keep current products instead of
\* resetting on error"
FetchFailed(category, err) ==
    /\ error' = Defined(ErrorMessage(err, category))
    /\ lastFailed' = Defined(category)
    /\ UNCHANGED products

\* a run without the finally block
FetchFinallyNothing == UNCHANGED isLoadingCategory

\* the finally block: setIsLoadingCategory(false)
FetchFinally == isLoadingCategory' = FALSE

\* The run of fetchCategoryProducts at position i resumes: the awaited
\* getProductsByCategory(selectedCategory) completes for this response;
\* then try / catch / finally.
FetchResolves(i, response) ==
    /\ i \in DOMAIN fetches
    /\ LET category == fetches[i]
           completion ==
               Settle(Call("getProductsByCategory", NoId, category), response)
       IN  /\ IF completion.threw
              THEN FetchFailed(category, completion.error)
              ELSE FetchSucceeded(category, completion.value)
           /\ lastEvent' =
                Event("resolved", category, ~completion.threw, completion.value)
    /\ FetchFinally
    /\ fetches' = RemoveAt(fetches, i)
    /\ UNCHANGED <<selectedCategory, retryTimers, svars>>
    /\ UNCHANGED <<fvars, apivars, pvars>>

\* ErrorState is rendered: error && !isLoadingCategory
ErrorStateShown == error # NoError /\ ~isLoadingCategory

\* a callback that compares the title as it is written
MatchesTitleCaseSensitive(product, query) == includes(product.title, query)

\* the callback of products.filter in the useMemo:
\* product.title.toLowerCase().includes(query)
MatchesTitle(product, query) == includes(toLowerCase(product.title), query)

RECURSIVE FilterByTitle(_, _)
FilterByTitle(items, query) ==
    IF items = <<>> THEN <<>>
    ELSE IF MatchesTitle(Head(items), query)
         THEN <<Head(items)>> \o FilterByTitle(Tail(items), query)
         ELSE FilterByTitle(Tail(items), query)

\* const filteredProducts = useMemo(..., [products, searchQuery])
filteredProducts ==
    IF trim(searchQuery) = EmptyStr THEN products
    ELSE FilterByTitle(products, toLowerCase(searchQuery))

\* CategoryLoader is rendered: isLoadingCategory && !error
CategoryLoaderShown == isLoadingCategory /\ error = NoError

\* the products list is rendered: !isLoadingCategory && !error
ProductListShown == ~isLoadingCategory /\ error = NoError

\* handleRetry with a category selected, followed by the effect of the
\* render in which selectedCategory is ""
handleRetry ==
    /\ ErrorStateShown
    /\ selectedCategory # EmptyStr
    /\ Len(retryTimers) < MaxRetryTimers
    /\ retryTimers' = Append(retryTimers, selectedCategory)
    /\ selectedCategory' = EmptyStr
    /\ CategoryEffect(EmptyStr)
    /\ lastEvent' = Event("retry", selectedCategory, TRUE, <<>>)
    /\ UNCHANGED <<lastFailed, svars>>
    /\ UNCHANGED <<fvars, apivars, pvars>>

\* the setTimeout(..., 0) callback of handleRetry:
\* setSelectedCategory(currentCategory), followed by the effect when the
\* state changed
RetryTimerFires ==
    /\ retryTimers # <<>>
    /\ LET currentCategory == Head(retryTimers)
       IN  /\ currentCategory # selectedCategory => Len(fetches) < MaxInFlight
           /\ selectedCategory' = currentCategory
           /\ IF currentCategory # selectedCategory
              THEN CategoryEffect(currentCategory)
              ELSE UNCHANGED <<products, isLoadingCategory, error, fetches>>
           /\ lastEvent' = Event("timer", currentCategory, TRUE, <<>>)
    /\ retryTimers' = Tail(retryTimers)
    /\ UNCHANGED <<lastFailed, svars>>
    /\ UNCHANGED <<fvars, apivars, pvars>>

\* handleRetry with no category selected: window.location.reload().  The
\* page is loaded again: the component is mounted anew and what the old
\* page awaited is gone.
handleRetryReload ==
    /\ ErrorStateShown
    /\ selectedCategory = EmptyStr
    /\ products' = InitialProducts
    /\ selectedCategory' = AllCategories
    /\ isLoadingCategory' = FALSE
    /\ error' = NoError
    /\ fetches' = <<>>
    /\ retryTimers' = <<>>
    /\ lastEvent' = Event("reload", AllCategories, TRUE, <<>>)
    /\ lastFailed' = Undefined
    /\ searchQuery' = EmptyStr
    /\ sfbSearchQuery' = EmptyStr
    /\ debouncedSearch' = EmptyStr
    /\ debounceTimers' = <<Timer(EmptyStr)>>
    /\ searchCalls' = <<>>
    /\ burstKeys' = 0
    /\ burstBase' = EmptyStr
    /\ UNCHANGED <<fvars, apivars, pvars>>

\* the variables of the category side that the search side leaves alone
catvars == <<products, selectedCategory, isLoadingCategory, error, fetches,
             retryTimers, lastFailed>>

\* the cleanup of the debounce effect left out: no timer is cleared
ClearTimeoutNothing(timers) == timers

\* return () => clearTimeout(timer): the cleanup of the debounce effect
\* clears the timer that the previous run of the effect set
ClearTimeout(timers) == <<>>

\* a timer is pending whose 300 ms have not passed: the last keystroke was
\* less than 300 ms ago
InBurst == \E i \in DOMAIN debounceTimers : ~debounceTimers[i].due

\* setSearchQuery(text) of SearchFilterBar with a text other than the
\* current one, followed by the debounce effect on [searchQuery]: cleanup,
\* then a new timer.  A keystroke that follows the previous one by 300 ms or
\* more begins a new burst.
SetInputText(text) ==
    /\ Len(ClearTimeout(debounceTimers)) < MaxDebounceTimers
    /\ sfbSearchQuery' = text
    /\ debounceTimers' = Append(ClearTimeout(debounceTimers), Timer(text))
    /\ burstKeys' = IF InBurst /\ burstKeys >= 1 THEN 2 ELSE 1
    /\ searchCalls' = IF InBurst THEN searchCalls ELSE <<>>
    /\ burstBase' = IF InBurst THEN burstBase ELSE debouncedSearch
    /\ UNCHANGED <<searchQuery, debouncedSearch>>

\* a handler that also goes back to "All Categories" on a new query
handleSearchChangeResetsCategory(query) ==
    /\ searchQuery' = query
    /\ selectedCategory' = EmptyStr
    /\ IF selectedCategory # EmptyStr
       THEN CategoryEffect(EmptyStr)
       ELSE UNCHANGED <<products, isLoadingCategory, error, fetches>>
    /\ UNCHANGED <<retryTimers, lastFailed>>

\* handleSearchChange of ProductsClient: setSearchQuery(query)
handleSearchChange(query) ==
    /\ searchQuery' = query
    /\ UNCHANGED catvars

\* onChange of the search input: a keystroke that makes the text `text`
KeyStroke(text) ==
    /\ text # sfbSearchQuery
    /\ SetInputText(text)
    /\ lastEvent' = Event("keystroke", EmptyStr, TRUE, <<>>)
    /\ UNCHANGED catvars
    /\ UNCHANGED <<fvars, apivars, pvars>>

\* time passes: the 300 ms of the oldest timer that is not yet due are over
DebounceElapses ==
    /\ \E i \in DOMAIN debounceTimers :
        /\ ~debounceTimers[i].due
        /\ \A j \in 1..(i - 1) : debounceTimers[j].due
        /\ debounceTimers' = [debounceTimers EXCEPT ![i].due = TRUE]
    /\ UNCHANGED <<searchQuery, sfbSearchQuery, debouncedSearch, searchCalls,
                   burstKeys, burstBase>>
    /\ UNCHANGED <<catvars, lastEvent>>
    /\ UNCHANGED <<fvars, apivars, pvars>>

\* The callback of a due debounce timer: setDebouncedSearch(text); when
\* debouncedSearch changed, the effect on [debouncedSearch, onSearchChange]
\* calls onSearchChange(debouncedSearch), which is handleSearchChange of
\* ProductsClient: setSearchQuery(query).
DebounceTimerFires ==
    /\ debounceTimers # <<>>
    /\ Head(debounceTimers).due
    /\ LET text == Head(debounceTimers).text
       IN  /\ debouncedSearch' = text
           /\ IF text # debouncedSearch
              THEN /\ handleSearchChange(text)
                   /\ searchCalls' = Append(searchCalls, text)
              ELSE /\ UNCHANGED <<searchQuery, searchCalls>>
                   /\ UNCHANGED catvars
    /\ debounceTimers' = Tail(debounceTimers)
    /\ lastEvent' = Event("debounce", EmptyStr, TRUE, <<>>)
    /\ UNCHANGED <<sfbSearchQuery, burstKeys, burstBase>>
    /\ UNCHANGED <<fvars, apivars, pvars>>

\* clearFilters of SearchFilterBar, shown while hasActiveFilters:
\* setSearchQuery(''), then onCategoryChange('') which is
\* handleCategoryChange('') of ProductsClient, then the effects of the
\* states that changed
clearFilters ==
    /\ sfbSearchQuery # EmptyStr \/ selectedCategory # EmptyStr
    /\ IF sfbSearchQuery # EmptyStr
       THEN SetInputText(EmptyStr)
       ELSE UNCHANGED svars
    /\ selectedCategory' = EmptyStr
    /\ IF selectedCategory # EmptyStr
       THEN CategoryEffect(EmptyStr)
       ELSE /\ error' = NoError
            /\ UNCHANGED <<products, isLoadingCategory, fetches>>
    /\ lastEvent' = Event("clear", selectedCategory, TRUE, <<>>)
    /\ UNCHANGED <<retryTimers, lastFailed>>
    /\ UNCHANGED <<fvars, apivars, pvars>>

-----------------------------------------------------------------------------
(* ProductPage (app/products/[id]/page.tsx)                                *)

\* the route segments requested
RouteIds ==
    { <<"1">>, <<"7">>, <<"1", "2">>, <<"0", "0", "7">>, <<"7", "x">>,
      <<"1", ".", "5">>, <<" ", "3">>, <<"+", "2">>, <<"0">>, <<"-", "5">>,
      <<"-", "0">>, <<"0", ".", "5">>, <<"a", "b", "c">>, <<"x", "7">>,
      <<"-">>, <<>> }

IsDigit(c) == c \in {"0", "1", "2", "3", "4", "5", "6", "7", "8", "9"}

DigitValue(c) ==
    CASE c = "0" -> 0 [] c = "1" -> 1 [] c = "2" -> 2 [] c = "3" -> 3
      [] c = "4" -> 4 [] c = "5" -> 5 [] c = "6" -> 6 [] c = "7" -> 7
      [] c = "8" -> 8 [] c = "9" -> 9

\* the longest prefix of s made of decimal digits
RECURSIVE LeadingDigits(_)
LeadingDigits(s) ==
    IF s = <<>> \/ ~IsDigit(Head(s)) THEN <<>>
    ELSE <<Head(s)>> \o LeadingDigits(Tail(s))

\* the value of a sequence of decimal digits
RECURSIVE DecimalValue(_)
DecimalValue(digits) ==
    IF digits = <<>> THEN 0
    ELSE 10 * DecimalValue(SubSeq(digits, 1, Len(digits) - 1))
         + DigitValue(digits[Len(digits)])

\* parseInt(s, 10): leading white space is skipped, then an optional sign,
\* then the longest run of digits; what follows is ignored; NaN when there
\* is no digit
parseInt(s) ==
    LET t == trimStart(s)
        signed == t # <<>> /\ Head(t) \in {"+", "-"}
        negative == signed /\ Head(t) = "-"
        digits == LeadingDigits(IF signed THEN Tail(t) ELSE t)
    IN  IF digits = <<>> THEN NaN
        ELSE Num(IF negative THEN 0 - DecimalValue(digits)
                 ELSE DecimalValue(digits))

\* a validation without the isNaN test
InvalidProductIdNoNaNTest(productId) == LeqZero(productId)

\* isNaN(productId) || productId <= 0
InvalidProductId(productId) == productId.nan \/ LeqZero(productId)

\* Building the markup reads product.image, product.title and
\* product.price.toFixed(2): a body that is not one product object (null,
\* an array) makes it throw a TypeError inside the try block.
RenderThrows(value) == Len(value) # 1

PageIdle ==
    /\ pagePc = "idle"
    /\ pageId = <<>>
    /\ pageCalls = <<>>
    /\ pageOutcome = Undefined
    /\ pageContent = Undefined

\* ProductPage({ params }) up to its first await: the id is parsed and
\* validated, then getProduct(productId) runs up to its fetch; when the
\* guard of getProduct throws, the catch block of the page calls notFound()
ProductPage(id) ==
    /\ pagePc = "idle"
    /\ pageId' = id
    /\ pageContent' = Undefined
    /\ LET productId == parseInt(id)
           call == Call("getProduct", productId, NoCategory)
       IN  IF InvalidProductId(productId)
           THEN /\ pagePc' = "notFound"
                /\ pageCalls' = <<>>
                /\ pageOutcome' = Undefined
           ELSE /\ pageCalls' = <<productId>>
                /\ IF ArgumentInvalid(call)
                   THEN /\ pagePc' = "notFound"
                        /\ pageOutcome' = Defined(Throw(ArgumentError(call)))
                   ELSE /\ pagePc' = "awaiting"
                        /\ pageOutcome' = Undefined
    /\ UNCHANGED <<fvars, apivars, cvars>>

\* The awaited getProduct completes for this response.  A rejection goes to
\* the catch block: notFound() for 404 and for every other error.  A product
\* is rendered, unless building the markup throws, which the same catch
\* block turns into notFound().
ProductPageResumes(response) ==
    /\ pagePc = "awaiting"
    /\ LET call == Call("getProduct", pageCalls[Len(pageCalls)], NoCategory)
           completion == Settle(call, response)
       IN  /\ pageOutcome' = Defined(completion)
           /\ IF completion.threw \/ RenderThrows(completion.value)
              THEN /\ pagePc' = "notFound"
                   /\ pageContent' = Undefined
              ELSE /\ pagePc' = "rendered"
                   /\ pageContent' = Defined(completion.value[1])
    /\ UNCHANGED <<pageId, pageCalls>>
    /\ UNCHANGED <<fvars, apivars, cvars>>

-----------------------------------------------------------------------------
(* Specification of the products page                                      *)

Init == ClientInit /\ ApiIdle /\ FilterIdle /\ PageIdle

Next ==
    \/ \E category \in Categories \cup {AllCategories} :
            handleCategoryChange(category)
    \/ \E i \in 1..MaxInFlight, response \in PageResponses :
            FetchResolves(i, response)
    \/ handleRetry
    \/ RetryTimerFires
    \/ handleRetryReload
    \/ \E text \in SearchTexts : KeyStroke(text)
    \/ DebounceElapses
    \/ DebounceTimerFires
    \/ clearFilters

Spec == Init /\ [][Next]_vars

-----------------------------------------------------------------------------
(* Specifications of one call of an API client function and of one call of *)
(* filterProducts                                                          *)

InitApi == ApiIdle /\ FilterIdle /\ ClientInit /\ PageIdle

NextApi ==
    \/ getAllProducts
    \/ \E id \in ProductIds : getProduct(id)
    \/ getCategories
    \/ \E category \in CategoryArgs : getProductsByCategory(category)
    \/ \E response \in Responses : FetchSettles(response)

SpecApi == InitApi /\ [][NextApi]_vars

InitFilter == FilterInputs /\ ApiIdle /\ ClientInit /\ PageIdle

NextFilter == CallFilterProducts

SpecFilter == InitFilter /\ [][NextFilter]_vars

InitPage == PageIdle /\ ApiIdle /\ FilterIdle /\ ClientInit

NextPage ==
    \/ \E id \in RouteIds : ProductPage(id)
    \/ \E response \in Responses : ProductPageResumes(response)

SpecPage == InitPage /\ [][NextPage]_vars

-----------------------------------------------------------------------------
(* Properties of filterProducts                                            *)

Range(s) == { s[i] : i \in DOMAIN s }

\* q occurs in s when letter case is ignored
ContainsIgnoringCase(s, q) ==
    \E i \in 1..(Len(s) - Len(q) + 1) :
        \A k \in 1..Len(q) : LowerChar(s[i + k - 1]) = LowerChar(q[k])

\* the query has no leading and no trailing white space
NoOuterWhiteSpace(q) ==
    q = <<>> \/ (~IsWhiteSpace(q[1]) /\ ~IsWhiteSpace(q[Len(q)]))

QueryCriterion(p, f) ==
    IsDefined(f.searchQuery) =>
        \/ ContainsIgnoringCase(p.title, ValueOf(f.searchQuery))
        \/ ContainsIgnoringCase(p.description, ValueOf(f.searchQuery))

MinPriceCriterion(p, f) ==
    IsDefined(f.minPrice) => p.price >= ValueOf(f.minPrice)

MaxPriceCriterion(p, f) ==
    IsDefined(f.maxPrice) => p.price <= ValueOf(f.maxPrice)

\* every criterion that is given, a given category "" included
SatisfiesAllGiven(p, f) ==
    /\ QueryCriterion(p, f)
    /\ IsDefined(f.category) => p.category = ValueOf(f.category)
    /\ MinPriceCriterion(p, f)
    /\ MaxPriceCriterion(p, f)

\* the same, a category counting as given only when it is a non-empty string
SatisfiesAllNonEmpty(p, f) ==
    /\ QueryCriterion(p, f)
    /\ (IsDefined(f.category) /\ ValueOf(f.category) # "") =>
            p.category = ValueOf(f.category)
    /\ MinPriceCriterion(p, f)
    /\ MaxPriceCriterion(p, f)

FilterCallInScopeC1 ==
    /\ fPc = "done"
    /\ IsDefined(fFilters.searchQuery) =>
            NoOuterWhiteSpace(ValueOf(fFilters.searchQuery))

\* C1 as stated: for a query without leading or trailing white space, a
\* product of the input is in the output exactly when it satisfies all the
\* criteria given in the filter specification (query, category equality,
\* inclusive minPrice and maxPrice, minPrice 0 being a criterion).
C1_SoundCompleteAsStated ==
    FilterCallInScopeC1 =>
        /\ Range(fResult) \subseteq Range(fProducts)
        /\ \A p \in Range(fProducts) :
                p \in Range(fResult) <=> SatisfiesAllGiven(p, fFilters)

\* C1 amended: the same equivalence, where a category restricts the output
\* only when it is a non-empty string (category "" keeps every category).
C1_SoundCompleteNonEmptyCategory ==
    FilterCallInScopeC1 =>
        /\ Range(fResult) \subseteq Range(fProducts)
        /\ \A p \in Range(fProducts) :
                p \in Range(fResult) <=> SatisfiesAllNonEmpty(p, fFilters)

\* a call with all four criteria given that keeps one product and drops one
C1_Witness ==
    /\ FilterCallInScopeC1
    /\ TruthyStr(fFilters.searchQuery)
    /\ IsDefined(fFilters.category) /\ ValueOf(fFilters.category) # ""
    /\ fFilters.minPrice = Defined(0)
    /\ IsDefined(fFilters.maxPrice)
    /\ fResult # <<>>
    /\ Range(fResult) # Range(fProducts)

NoCriteria(f) ==
    /\ f.searchQuery = Undefined
    /\ f.category = Undefined
    /\ f.minPrice = Undefined
    /\ f.maxPrice = Undefined

\* C2: with no criterion set, filterProducts returns the input elements in
\* the input order.
C2_IdentityLaw ==
    (fPc = "done" /\ NoCriteria(fFilters)) => fResult = fProducts

\* a call without criteria on two different products
C2_Witness ==
    /\ fPc = "done"
    /\ NoCriteria(fFilters)
    /\ Len(fProducts) = MaxProducts
    /\ fProducts[1] # fProducts[2]
    /\ fResult = fProducts

\* r picks positions of s in increasing order, each at most once
IsSubsequence(r, s) ==
    \E pos \in [1..Len(r) -> 1..Len(s)] :
        /\ \A i, j \in 1..Len(r) : i < j => pos[i] < pos[j]
        /\ \A i \in 1..Len(r) : r[i] = s[pos[i]]

\* C3: the output of filterProducts is an ordered subsequence of the input:
\* only input elements, no input position twice, input order kept.
C3_OrderedSubsequence ==
    fPc = "done" => IsSubsequence(fResult, fProducts)

\* a call with a criterion that keeps two different products
C3_Witness ==
    /\ fPc = "done"
    /\ ~NoCriteria(fFilters)
    /\ Len(fResult) >= 2
    /\ fResult[1] # fResult[2]

\* C4 as stated: a search query of white space only imposes no constraint,
\* so with no other criterion every input product is returned.
C4_WhiteSpaceQueryIsNoConstraint ==
    ( /\ fPc = "done"
      /\ IsDefined(fFilters.searchQuery)
      /\ ValueOf(fFilters.searchQuery) # EmptyStr
      /\ trim(ValueOf(fFilters.searchQuery)) = EmptyStr
      /\ fFilters.category = Undefined
      /\ fFilters.minPrice = Undefined
      /\ fFilters.maxPrice = Undefined )
    => fResult = fProducts

-----------------------------------------------------------------------------
(* Properties of the API client                                            *)

ApiCompleted == apiPc \in {"returned", "thrown"}

ApiError == ValueOf(apiOutcome).error

\* the call failed with a FakeStoreAPIError whose statusCode is undefined
\* and issued no HTTP request
RejectedBeforeFetch ==
    /\ apiPc = "thrown"
    /\ ApiError.name = "FakeStoreAPIError"
    /\ ApiError.statusCode = Undefined
    /\ apiRequests = <<>>

\* the number is an integer greater than 0
PositiveInteger(x) == ~x.nan /\ x.twice > 0 /\ x.twice % 2 = 0

\* the number is greater than 0
PositiveNumber(x) == ~x.nan /\ x.twice > 0

GetProductCalled == apiPc # "idle" /\ apiCall.fn = "getProduct"

\* C5 as stated: every id that is not a positive integer (0, negative, NaN,
\* non-integer such as 1.5) makes getProduct fail with a FakeStoreAPIError
\* of undefined statusCode without an HTTP request.
C5_RejectsNonPositiveIntegers ==
    (GetProductCalled /\ ~PositiveInteger(apiCall.id)) => RejectedBeforeFetch

\* C5 amended: the precondition enforced is "id is a positive number": an
\* id that is 0, negative or NaN fails with a FakeStoreAPIError of undefined
\* statusCode without an HTTP request, and every positive id, integer or not
\* (1.5), passes the guard and has its GET /products/{id} issued.
C5_RejectsNonPositiveNumbers ==
    GetProductCalled =>
        IF PositiveNumber(apiCall.id)
        THEN apiRequests =
                <<(<<Lit(API_BASE_URL), Lit("/products/"),
                     NumberTok(apiCall.id)>>)>>
        ELSE RejectedBeforeFetch

\* getProduct(NaN) has been rejected
C5_Witness ==
    /\ GetProductCalled
    /\ apiCall.id = NaN
    /\ RejectedBeforeFetch

GetByCategoryCalled ==
    apiPc # "idle" /\ apiCall.fn = "getProductsByCategory"

\* the string is empty or has white space only
BlankString(s) == \A i \in DOMAIN s : IsWhiteSpace(s[i])

\* C6: getProductsByCategory with a category that is empty or white space
\* only fails with a FakeStoreAPIError of undefined statusCode and issues
\* no HTTP request; with any other category it issues exactly one GET, to
\* /products/category/{URL-encoded category}.
C6_CategoryPrecondition ==
    GetByCategoryCalled =>
        IF BlankString(apiCall.category)
        THEN RejectedBeforeFetch
        ELSE apiRequests =
                <<(<<Lit(API_BASE_URL), Lit("/products/category/"),
                     StrTok(encodeURIComponent(apiCall.category))>>)>>

\* a category with a character that the URL encoding escapes has been
\* requested, and the call has completed
C6_Witness ==
    /\ GetByCategoryCalled
    /\ ApiCompleted
    /\ Len(apiRequests) = 1
    /\ encodeURIComponent(apiCall.category) # apiCall.category

\* the awaited fetch resolved with a response of this status
RespondedWith(status) ==
    /\ ApiCompleted
    /\ IsDefined(apiResponse)
    /\ ~ValueOf(apiResponse).rejected
    /\ ValueOf(apiResponse).status = status

\* C7: a 404 response to getProduct or getProductsByCategory makes the call
\* fail with a FakeStoreAPIError whose statusCode is exactly 404.
C7_NotFoundKeepsStatus ==
    ( /\ apiCall.fn \in {"getProduct", "getProductsByCategory"}
      /\ RespondedWith(404) )
    => /\ apiPc = "thrown"
       /\ ApiError.name = "FakeStoreAPIError"
       /\ ApiError.statusCode = Defined(404)

\* getProductsByCategory has failed on a 404 response
C7_Witness ==
    /\ apiCall.fn = "getProductsByCategory"
    /\ RespondedWith(404)
    /\ apiPc = "thrown"

\* the message has the number as one of its interpolated pieces
MessageHasNumber(message, n) ==
    \E i \in DOMAIN message :
        message[i].kind = "number" /\ message[i].twice = 2 * n

\* the message is the one the catch block builds
IsNetworkErrorMessage(message) ==
    \E i \in DOMAIN message :
        /\ message[i].kind = "lit"
        /\ message[i].text \in
            { <<"Network error while fetching products: ">>,
              <<"Network error while fetching product ">>,
              <<"Network error while fetching categories: ">>,
              <<"Network error while fetching products for category \"">> }

NonSuccessStatus(status) == status < 200 \/ status > 299

\* C8: for each of the four functions, a response with a non-success status
\* s other than 404 makes the call fail with a FakeStoreAPIError whose
\* statusCode is s and whose message has the code s; the catch block does
\* not rewrap it as a network error of undefined status.
C8_StatusErrorKeepsCode ==
    \A s \in StatusCodes :
        (NonSuccessStatus(s) /\ s # 404 /\ RespondedWith(s)) =>
            /\ apiPc = "thrown"
            /\ ApiError.name = "FakeStoreAPIError"
            /\ ApiError.statusCode = Defined(s)
            /\ MessageHasNumber(ApiError.message, s)
            /\ ~IsNetworkErrorMessage(ApiError.message)

\* getCategories has failed on a 500 response
C8_Witness ==
    /\ apiCall.fn = "getCategories"
    /\ RespondedWith(500)
    /\ apiPc = "thrown"

\* the resource path each function's endpoint string starts with
ResourcePath(fn) ==
    CASE fn = "getAllProducts" -> "/products"
      [] fn = "getProduct" -> "/products/"
      [] fn = "getCategories" -> "/products/categories"
      [] fn = "getProductsByCategory" -> "/products/category/"

\* the fetch of the call rejected, or its body was not valid JSON
TransportOrParseFailure ==
    /\ IsDefined(apiResponse)
    /\ \/ ValueOf(apiResponse).rejected
       \/ ResponseOk(ValueOf(apiResponse)) /\ ~ValueOf(apiResponse).jsonOk

\* some failure path was taken: guard, transport, non-2xx status, bad JSON
ApiFailure ==
    \/ apiPc # "idle" /\ apiRequests = <<>>
    \/ /\ IsDefined(apiResponse)
       /\ (TransportOrParseFailure \/ ~ResponseOk(ValueOf(apiResponse)))

\* C9: every failure path of each function ends in a thrown
\* FakeStoreAPIError that carries the endpoint path; nothing else is thrown,
\* no failure becomes a returned value, and transport and parse failures
\* carry an undefined statusCode.
C9_UniformErrorFunnel ==
    /\ ApiFailure => apiPc = "thrown"
    /\ apiPc = "thrown" =>
        /\ ApiError.name = "FakeStoreAPIError"
        /\ IsDefined(ApiError.endpoint)
        /\ Head(ValueOf(ApiError.endpoint)) = Lit(ResourcePath(apiCall.fn))
    /\ TransportOrParseFailure => ApiError.statusCode = Undefined
    /\ apiPc = "returned" =>
        /\ ~ValueOf(apiOutcome).threw
        /\ ValueOf(apiOutcome).value = ValueOf(apiResponse).body

\* a call whose response body was not valid JSON has thrown
C9_Witness ==
    /\ apiPc = "thrown"
    /\ IsDefined(apiResponse)
    /\ ~ValueOf(apiResponse).rejected
    /\ ResponseOk(ValueOf(apiResponse))
    /\ ~ValueOf(apiResponse).jsonOk

-----------------------------------------------------------------------------
(* Properties of ProductsClient                                            *)

\* C10 as stated: selecting a non-empty category puts the controller in the
\* loading state (isLoadingCategory true, error null) with a
\* getProductsByCategory issued for that category; when a category fetch
\* succeeds the controller is idle (isLoadingCategory false, error null) and
\* the loaded list is the fetched list.
C10_SelectLoadsThenIdle ==
    /\ (lastEvent.kind = "select" /\ lastEvent.category # EmptyStr) =>
        /\ isLoadingCategory
        /\ error = NoError
        /\ fetches # <<>>
        /\ fetches[Len(fetches)] = lastEvent.category
    /\ (lastEvent.kind = "resolved" /\ lastEvent.ok) =>
        /\ ~isLoadingCategory
        /\ error = NoError
        /\ products = lastEvent.value

\* a step in which a run of fetchCategoryProducts ends in its catch block
FailedResolution ==
    /\ Len(fetches') < Len(fetches)
    /\ lastEvent'.kind = "resolved"
    /\ ~lastEvent'.ok

\* C11 as stated: when a category fetch fails, the controller shows the
\* error with its retry button, the loaded list is unchanged, and the list
\* is still on screen.
C11_FailureKeepsListOnScreen ==
    [][FailedResolution =>
         /\ products' = products
         /\ ErrorStateShown'
         /\ ProductListShown']_vars

\* C11, amended: when a category fetch fails, the controller shows the error
\* with its retry button and the loaded list is unchanged by the failure,
\* but the list is not rendered while the error is shown.
C11_FailureKeepsLoadedList ==
    [][FailedResolution =>
         /\ products' = products
         /\ ErrorStateShown'
         /\ ~ProductListShown']_vars

\* a category list was loaded, then the fetch of another category failed
C11_Witness ==
    /\ lastEvent.kind = "resolved"
    /\ ~lastEvent.ok
    /\ fetches = <<>>
    /\ products = <<ProductById(1)>>
    /\ ErrorStateShown

\* a step in which the user clears the category: "All Categories" chosen in
\* the select, or Clear Filters pressed, while a category is selected
ClearsCategory ==
    /\ selectedCategory # EmptyStr
    /\ selectedCategory' = EmptyStr
    /\ lastEvent'.kind \in {"select", "clear"}

\* C12: clearing the category sets products to initialProducts and error to
\* null, and issues no getProductsByCategory and no other request.
C12_ClearRestoresInitialProducts ==
    [][ClearsCategory =>
         /\ products' = InitialProducts
         /\ error' = NoError
         /\ fetches' = fetches
         /\ UNCHANGED apivars]_vars

\* Clear Filters was pressed with a category selected whose list differed
\* from initialProducts, after a failed fetch
C12_Witness ==
    /\ lastEvent.kind = "clear"
    /\ lastEvent.category # EmptyStr
    /\ IsDefined(lastFailed)
    /\ selectedCategory = EmptyStr
    /\ products = InitialProducts
    /\ error = NoError

\* the burst is over: its keystrokes were made and the timer of the last
\* one has fired
BurstOver == burstKeys >= 1 /\ debounceTimers = <<>>

\* C13 as stated: for every burst of keystrokes less than 300 ms apart,
\* onSearchChange is invoked exactly once, with the text of the last
\* keystroke.
C13_ExactlyOncePerBurst ==
    BurstOver => searchCalls = <<sfbSearchQuery>>

\* C13, amended: during a burst onSearchChange is not invoked; for the
\* whole burst it is invoked at most once, with the text of the last
\* keystroke, and exactly once when that text differs from debouncedSearch
\* as it was when the burst began; when the text is the same it is not
\* invoked at all.
C13_AtMostOncePerBurst ==
    /\ Len(searchCalls) <= 1
    /\ InBurst => searchCalls = <<>>
    /\ BurstOver =>
         searchCalls = IF sfbSearchQuery # burstBase
                       THEN <<sfbSearchQuery>>
                       ELSE <<>>

\* a burst of two or more keystrokes ended with "A" and was delivered once
C13_Witness ==
    /\ BurstOver
    /\ burstKeys = 2
    /\ sfbSearchQuery = <<"A">>
    /\ searchCalls = <<sfbSearchQuery>>
    /\ searchQuery = sfbSearchQuery

\* C14: the retry pressed in the error view with a category selected is for
\* the category whose fetch failed last: that category is the one the
\* deferred step will select again, and once the deferred step has run it
\* is the selected category, with its fetch issued.
C14_RetryRefetchesFailedCategory ==
    /\ lastEvent.kind = "retry" =>
         /\ IsDefined(lastFailed)
         /\ lastEvent.category = ValueOf(lastFailed)
         /\ retryTimers[Len(retryTimers)] = ValueOf(lastFailed)
    /\ lastEvent.kind = "timer" =>
         /\ selectedCategory = lastEvent.category
         /\ \E i \in DOMAIN fetches : fetches[i] = lastEvent.category

\* C15: in every reachable state at most one getProductsByCategory call
\* issued by the controller is unresolved.
C15_AtMostOneFetchInFlight == Len(fetches) <= 1

\* C16: nothing cancels or ignores an outdated fetch: every fetch that
\* succeeds makes its result the loaded list, whichever category is
\* selected by then; so the run "select A, select B, B resolves, A
\* resolves" ends with A's list loaded while B is selected (C16_Witness).
C16_EverySuccessOverwrites ==
    (lastEvent.kind = "resolved" /\ lastEvent.ok) =>
        products = lastEvent.value

\* A's fetch succeeded last, after the fetch of the selected category B had
\* succeeded: the loaded list is A's
C16_Witness ==
    /\ lastEvent.kind = "resolved"
    /\ lastEvent.ok
    /\ lastEvent.category = <<"a">>
    /\ selectedCategory = <<"b", " ", "c">>
    /\ fetches = <<>>
    /\ retryTimers = <<>>
    /\ lastFailed = Undefined
    /\ products = lastEvent.value
    /\ products = <<ProductById(1)>>
    /\ ProductListShown

-----------------------------------------------------------------------------
(* Properties of ProductPage                                               *)

\* the parsed id is NaN or <= 0
ParsedIdRejected(n) == n.nan \/ n.twice <= 0

\* getProduct completed by throwing a FakeStoreAPIError
GetProductFailed ==
    /\ IsDefined(pageOutcome)
    /\ ValueOf(pageOutcome).threw
    /\ ValueOf(pageOutcome).error.name = "FakeStoreAPIError"

\* C17: when the parsed id is NaN or <= 0 the page calls notFound() and
\* never calls getProduct; when getProduct fails with a FakeStoreAPIError,
\* whatever its status, the page calls notFound(); product content is
\* rendered only when getProduct succeeded, and it is the product returned.
C17_EveryFailureIsNotFound ==
    /\ (pagePc # "idle" /\ ParsedIdRejected(parseInt(pageId))) =>
          (pagePc = "notFound" /\ pageCalls = <<>>)
    /\ GetProductFailed => (pagePc = "notFound" /\ pageContent = Undefined)
    /\ pagePc = "rendered" =>
          /\ IsDefined(pageOutcome)
          /\ ~ValueOf(pageOutcome).threw
          /\ pageContent = Defined(ValueOf(pageOutcome).value[1])
    /\ IsDefined(pageContent) => pagePc = "rendered"

\* getProduct(7) failed with a status other than 404 and the page answered
\* with notFound()
C17_Witness ==
    /\ pagePc = "notFound"
    /\ pageId = <<"0", "0", "7">>
    /\ pageCalls = <<Num(7)>>
    /\ GetProductFailed
    /\ ValueOf(pageOutcome).error.statusCode = Defined(500)

-----------------------------------------------------------------------------
(* Properties of the displayed list                                        *)

\* the filter specification that holds the active query only
QueryOnly(q) ==
    [searchQuery |-> Defined(q), category |-> Undefined,
     minPrice |-> Undefined, maxPrice |-> Undefined]

\* C18 as stated: the displayed list is filterProducts applied to the
\* loaded list with the active query: a product is shown when the query
\* matches its title or its description, case-insensitively.
C18_DisplayedListIsFilterProducts ==
    filteredProducts = filterProducts(products, QueryOnly(searchQuery))

\* C18, amended: the displayed list is the loaded list when the active
\* query is empty or white space only; otherwise it is, in order, the
\* loaded products whose title contains the query, case-insensitively.  The
\* description is not searched.
C18_DisplayedListIsTitleMatches ==
    filteredProducts =
        IF BlankString(searchQuery)
        THEN products
        ELSE SelectSeq(products,
                       LAMBDA p : ContainsIgnoringCase(p.title, searchQuery))

\* the query "A" is active on the initial list: the product titled "Ab" is
\* displayed, the product whose description only contains "aB" is not
C18_Witness ==
    /\ searchQuery = <<"A">>
    /\ products = InitialProducts
    /\ ProductListShown
    /\ filteredProducts = <<ProductById(1)>>
    /\ ContainsIgnoringCase(ProductById(2).description, searchQuery)

\* C19: a keystroke or a debounced query update leaves the loaded list, the
\* selected category, isLoadingCategory and error unchanged and issues no
\* request; a keystroke leaves the active query unchanged too, and the
\* debounced update makes the active query the debounced text.
C19_TypingLeavesControllerAlone ==
    [][lastEvent'.kind \in {"keystroke", "debounce"} =>
         /\ UNCHANGED <<products, selectedCategory, isLoadingCategory,
                        error, fetches, retryTimers>>
         /\ UNCHANGED apivars
         /\ lastEvent'.kind = "keystroke" => searchQuery' = searchQuery
         /\ searchQuery' = debouncedSearch']_vars

\* the query "A" became active while the fetch of the selected category was
\* outstanding
C19_Witness ==
    /\ lastEvent.kind = "debounce"
    /\ searchQuery = <<"A">>
    /\ searchCalls = <<searchQuery>>
    /\ selectedCategory = <<"a">>
    /\ fetches = <<selectedCategory>>
    /\ CategoryLoaderShown
    /\ products = InitialProducts

\* the number of views rendered among ErrorState, CategoryLoader and the
\* product list
ViewsShown ==
    Cardinality({ v \in {"error", "loader", "list"} :
                    \/ v = "error" /\ ErrorStateShown
                    \/ v = "loader" /\ CategoryLoaderShown
                    \/ v = "list" /\ ProductListShown })

\* C20: in every reachable state exactly one of the three views is
\* rendered; isLoadingCategory and a non-null error are never both true.
C20_ExactlyOneView ==
    /\ ViewsShown = 1
    /\ ~(isLoadingCategory /\ error # NoError)

\* the error view alone is rendered while a fetch of the selected category
\* is still outstanding
C20_Witness ==
    /\ ErrorStateShown
    /\ ViewsShown = 1
    /\ selectedCategory # EmptyStr
    /\ fetches = <<selectedCategory>>
    /\ lastEvent.kind = "resolved"

-----------------------------------------------------------------------------
(* Properties of the controller under overlapping and outdated fetches     *)

\* C21: while a getProductsByCategory call for the selected category is
\* unresolved isLoadingCategory is true, and when no category fetch is
\* unresolved isLoadingCategory is false.
C21_LoadingTracksOutstandingWork ==
    /\ (\E i \in DOMAIN fetches : fetches[i] = selectedCategory) =>
          isLoadingCategory
    /\ fetches = <<>> => ~isLoadingCategory

\* C22: whenever no category is selected and no category fetch is in
\* flight, the loaded list is initialProducts and error is null.
C22_NoCategoryMeansInitialProducts ==
    (selectedCategory = EmptyStr /\ fetches = <<>>) =>
        (products = InitialProducts /\ error = NoError)

\* C23: whenever no category fetch is in flight and error is non-null, the
\* fetch that failed last was for the selected category; and once the fetch
\* of the selected category has succeeded with nothing else in flight, no
\* error is left.
C23_ErrorIsForCurrentSelection ==
    /\ (fetches = <<>> /\ error # NoError) =>
          lastFailed = Defined(selectedCategory)
    /\ (/\ fetches = <<>>
        /\ lastEvent.kind = "resolved"
        /\ lastEvent.ok
        /\ lastEvent.category = selectedCategory) => error = NoError

\* C24: pressing retry with a category selected, and the deferred step that
\* re-issues the fetch, leave the loaded list unchanged.
C24_RetryKeepsLoadedList ==
    [][lastEvent'.kind \in {"retry", "timer"} => products' = products]_vars

====
